---- MODULE Spec2Model ----
(***************************************************************************)
(* A model of the commit-with-ai extension's provider (AiCommitProvider):  *)
(* the diff aggregation of getChangesDiff / getFileDiff and the message    *)
(* generation of generateCommitMessage / addEmojiToCommitMessage; and of   *)
(* its review surface (CommitViewProvider) with the commands that drive it.*)
(*                                                                         *)
(* Strings are sequences of Unicode code points (naturals); files hold     *)
(* sequences of bytes, which TextDecoder turns into code points.           *)
(***************************************************************************)
EXTENDS Integers, Sequences, FiniteSets, TLC

VARIABLES
  gitExtension,   \* this.gitExtension is set (the git API object exists)
  openai,         \* this.openai is set (a client was created at construction)
  repoOpen,       \* gitExtension.repositories[0] exists
  callPc,         \* getChangesDiff: "idle", "running", "returned", "threw"
  filePaths,      \* the argument of the running getChangesDiff call (file ids)
  tasks,          \* one record per element of diffPromises
  settleOrder,    \* the indices of diffPromises in the order they settled
  allDiffs,       \* the value getChangesDiff returned
  adapterCalls,   \* the stat/show/readFile/diffWithHEAD calls issued, <<op, index>>
  notifications,  \* the vscode.window.show*Message calls of the running call
  genPc,          \* generateCommitMessage: "idle", "awaiting", "returned", "threw"
  genDiff,        \* its diffContent argument
  genReturn,      \* the value it returned
  requestLog,     \* the diffs sent to chat.completions.create by the running call
  completion,     \* how the awaited request settled (the response or the error)
  _view,          \* CommitViewProvider._view is set (the view was resolved)
  _commitMessage, \* CommitViewProvider._commitMessage
  _diffContent,   \* CommitViewProvider._diffContent
  _changedFiles,  \* the paths of CommitViewProvider._changedFiles
  html,           \* _view.webview.html: what the template was last filled with
  textarea,       \* the commit-message element of the loaded page and its value
  inputBox,       \* repo.inputBox.value
  requests,       \* the generation handler runs started so far: the locals of
                  \* the running ones, the way the ended ones ended
  lastCompleted,  \* the run that last reached updateContent, and what it passed
  settingsKey,    \* the setting commitWithAi.openaiApiKey, as it is now
  envKey,         \* process.env.OPENAI_API_KEY, as it is now
  apiKey,         \* the apiKey this.openai was created with ('' without a client)
  genKey          \* the apiKey of the client the running call sent its request with

vars == <<gitExtension, openai, repoOpen, callPc, filePaths, tasks, settleOrder,
          allDiffs, adapterCalls, notifications, genPc, genDiff, genReturn,
          requestLog, completion, _view, _commitMessage, _diffContent,
          _changedFiles, html, textarea, inputBox, requests, lastCompleted,
          settingsKey, envKey, apiKey, genKey>>

diffVars == <<callPc, filePaths, tasks, settleOrder, allDiffs, adapterCalls>>
genVars == <<genPc, genDiff, genReturn, requestLog, completion, genKey>>
keyVars == <<settingsKey, envKey, apiKey>>
viewVars == <<_view, _commitMessage, _diffContent, _changedFiles, html, textarea,
              inputBox, requests, lastCompleted>>

(***************************************************************************)
(* Bounds                                                                  *)
(***************************************************************************)
\* the longest filePaths array passed to getChangesDiff
MaxFiles == 2

\* the number of generation requests one run of the review surface starts
MaxRequests == 2

(***************************************************************************)
(* String helpers                                                          *)
(***************************************************************************)
\* String.prototype.includes: needle occurs in text as a contiguous substring
Includes(text, needle) ==
  \E i \in 0..(Len(text) - Len(needle)) :
    \A j \in 1..Len(needle) : text[i + j] = needle[j]

\* the pattern occurs in text at index i
OccursAt(text, i, pattern) ==
  /\ i + Len(pattern) - 1 <= Len(text)
  /\ \A j \in 1..Len(pattern) : text[i + j - 1] = pattern[j]

\* String.prototype.startsWith
StartsWith(text, prefix) ==
  /\ Len(prefix) <= Len(text)
  /\ \A j \in 1..Len(prefix) : text[j] = prefix[j]

\* the suffix of text that starts at index i (1-based); empty when i > Len
DropBefore(text, i) == [k \in 1..(Len(text) - i + 1) |-> text[k + i - 1]]

(***************************************************************************)
(* TextDecoder (UTF-8, fatal: false, ignoreBOM: false)                     *)
(***************************************************************************)
IsCont(bytes, i, lo, hi) == i <= Len(bytes) /\ bytes[i] >= lo /\ bytes[i] <= hi

\* bounds of the first continuation byte after lead byte b
ContLo(b) == IF b = 224 THEN 160 ELSE IF b = 240 THEN 144 ELSE 128
ContHi(b) == IF b = 237 THEN 159 ELSE IF b = 244 THEN 143 ELSE 191

RECURSIVE Utf8Decode(_, _)
Utf8Decode(bytes, i) ==
  IF i > Len(bytes) THEN <<>>
  ELSE LET b == bytes[i] IN
    IF b <= 127 THEN <<b>> \o Utf8Decode(bytes, i + 1)
    ELSE IF b >= 194 /\ b <= 223 THEN
      IF IsCont(bytes, i + 1, 128, 191)
      THEN <<(b - 192) * 64 + (bytes[i + 1] - 128)>> \o Utf8Decode(bytes, i + 2)
      ELSE <<65533>> \o Utf8Decode(bytes, i + 1)
    ELSE IF b >= 224 /\ b <= 239 THEN
      IF ~IsCont(bytes, i + 1, ContLo(b), ContHi(b))
      THEN <<65533>> \o Utf8Decode(bytes, i + 1)
      ELSE IF ~IsCont(bytes, i + 2, 128, 191)
      THEN <<65533>> \o Utf8Decode(bytes, i + 2)
      ELSE <<(b - 224) * 4096 + (bytes[i + 1] - 128) * 64 + (bytes[i + 2] - 128)>>
             \o Utf8Decode(bytes, i + 3)
    ELSE IF b >= 240 /\ b <= 244 THEN
      IF ~IsCont(bytes, i + 1, ContLo(b), ContHi(b))
      THEN <<65533>> \o Utf8Decode(bytes, i + 1)
      ELSE IF ~IsCont(bytes, i + 2, 128, 191)
      THEN <<65533>> \o Utf8Decode(bytes, i + 2)
      ELSE IF ~IsCont(bytes, i + 3, 128, 191)
      THEN <<65533>> \o Utf8Decode(bytes, i + 3)
      ELSE <<(b - 240) * 262144 + (bytes[i + 1] - 128) * 4096
               + (bytes[i + 2] - 128) * 64 + (bytes[i + 3] - 128)>>
             \o Utf8Decode(bytes, i + 4)
    ELSE <<65533>> \o Utf8Decode(bytes, i + 1)

\* new TextDecoder().decode(content): a leading U+FEFF is dropped
TextDecode(bytes) ==
  LET cps == Utf8Decode(bytes, 1)
  IN IF Len(cps) > 0 /\ cps[1] = 65279 THEN Tail(cps) ELSE cps

(***************************************************************************)
(* The workspace and the repository the adapter calls answer from          *)
(***************************************************************************)
\* the workspace folder "/w"
WorkspaceRoot == <<47, 119>>

\* vscode.workspace.asRelativePath: a path under the workspace folder loses
\* the folder prefix, any other path is returned as it is
asRelativePath(path) ==
  IF StartsWith(path, WorkspaceRoot \o <<47>>)
  THEN DropBefore(path, Len(WorkspaceRoot) + 2)
  ELSE path

\* "did not match any file(s) known to git"
NoMatchText ==
  <<100, 105, 100, 32, 110, 111, 116, 32, 109, 97, 116, 99, 104, 32, 97, 110,
    121, 32, 102, 105, 108, 101, 40, 115, 41, 32, 107, 110, 111, 119, 110, 32,
    116, 111, 32, 103, 105, 116>>

\* values a rejected repo.show can carry
NoError == [kind |-> "none", hasCode |-> FALSE, gitErrorCode |-> "",
            hasMessage |-> FALSE, message |-> <<>>]
ErrUnknownPath == [kind |-> "object", hasCode |-> TRUE, gitErrorCode |-> "UnknownPath",
                   hasMessage |-> TRUE, message |-> <<102, 97, 116, 97, 108>>]
ErrNoMatchMessage == [kind |-> "object", hasCode |-> FALSE, gitErrorCode |-> "",
                      hasMessage |-> TRUE,
                      message |-> <<110, 32>> \o NoMatchText \o <<46>>]
ErrNotAGitRepository == [kind |-> "object", hasCode |-> TRUE,
                         gitErrorCode |-> "NotAGitRepository",
                         hasMessage |-> FALSE, message |-> <<>>]
ErrOtherGit == [kind |-> "object", hasCode |-> TRUE, gitErrorCode |-> "BadConfigFile",
                hasMessage |-> TRUE, message |-> <<98, 111, 111, 109>>]
ErrPrimitive == [kind |-> "primitive", hasCode |-> FALSE, gitErrorCode |-> "",
                 hasMessage |-> FALSE, message |-> <<>>]

\* The files of the modelled working tree: what stat, show, readFile and
\* diffWithHEAD answer for each.
\*   mod   /w/a  tracked, modified               new   /w/n  untracked, readable
\*   gone  /w/g  not in the working tree         bom   /w/b  untracked, BOM + bad byte
\*   lock  /w/l  untracked, unreadable           err   /w/e  show fails otherwise, diff works
\*   bad   /w/d  tracked, diffWithHEAD fails     same  /w/s  tracked, empty diff
\*   out   /x/o  outside the workspace, show says NotAGitRepository
\*   prim  /w/p  show rejects with a primitive, diffWithHEAD fails
World ==
  [mod  |-> [fsPath |-> <<47, 119, 47, 97>>, exists |-> TRUE, show |-> NoError,
             content |-> <<121>>, readOk |-> TRUE,
             diffOk |-> TRUE, diff |-> <<45, 120, 10, 43, 121>>],
   new  |-> [fsPath |-> <<47, 119, 47, 110>>, exists |-> TRUE, show |-> ErrUnknownPath,
             content |-> <<104, 105>>, readOk |-> TRUE,
             diffOk |-> FALSE, diff |-> <<>>],
   gone |-> [fsPath |-> <<47, 119, 47, 103>>, exists |-> FALSE, show |-> NoError,
             content |-> <<>>, readOk |-> FALSE,
             diffOk |-> TRUE, diff |-> <<45, 103>>],
   bom  |-> [fsPath |-> <<47, 119, 47, 98>>, exists |-> TRUE, show |-> ErrNoMatchMessage,
             content |-> <<239, 187, 191, 104, 255>>, readOk |-> TRUE,
             diffOk |-> FALSE, diff |-> <<>>],
   lock |-> [fsPath |-> <<47, 119, 47, 108>>, exists |-> TRUE, show |-> ErrUnknownPath,
             content |-> <<>>, readOk |-> FALSE,
             diffOk |-> FALSE, diff |-> <<>>],
   err  |-> [fsPath |-> <<47, 119, 47, 101>>, exists |-> TRUE, show |-> ErrOtherGit,
             content |-> <<122>>, readOk |-> TRUE,
             diffOk |-> TRUE, diff |-> <<43, 122>>],
   bad  |-> [fsPath |-> <<47, 119, 47, 100>>, exists |-> TRUE, show |-> NoError,
             content |-> <<100>>, readOk |-> TRUE,
             diffOk |-> FALSE, diff |-> <<>>],
   same |-> [fsPath |-> <<47, 119, 47, 115>>, exists |-> TRUE, show |-> NoError,
             content |-> <<115>>, readOk |-> TRUE,
             diffOk |-> TRUE, diff |-> <<>>],
   out  |-> [fsPath |-> <<47, 120, 47, 111>>, exists |-> TRUE,
             show |-> ErrNotAGitRepository,
             content |-> <<113>>, readOk |-> TRUE,
             diffOk |-> FALSE, diff |-> <<>>],
   prim |-> [fsPath |-> <<47, 119, 47, 112>>, exists |-> TRUE, show |-> ErrPrimitive,
             content |-> <<112>>, readOk |-> TRUE,
             diffOk |-> FALSE, diff |-> <<>>]]

FileIds == DOMAIN World

\* every filePaths argument of at most MaxFiles entries
PathLists == UNION {[1..n -> FileIds] : n \in 0..MaxFiles}

(***************************************************************************)
(* getFileDiff and the per-file callback of getChangesDiff                 *)
(***************************************************************************)
\* "+++ New file\n"
NewFileMarker == <<43, 43, 43, 32, 78, 101, 119, 32, 102, 105, 108, 101, 10>>

\* the type guard isGitError
isGitError(error) ==
  /\ error.kind = "object"
  /\ (error.hasCode \/ error.hasMessage)

\* the condition under which a rejected repo.show makes getFileDiff read the
\* working copy instead of diffing against HEAD
IsNewFileError(error) ==
  /\ isGitError(error)
  /\ \/ error.gitErrorCode = "NotAGitRepository"
     \/ error.gitErrorCode = "UnknownPath"
     \/ (error.hasMessage /\ Includes(error.message, NoMatchText))

\* values getFileDiff resolves to
Undefined == [defined |-> FALSE, text |-> <<>>]
Defined(text) == [defined |-> TRUE, text |-> text]

\* a synthesized diff without the marker line
NewFileDiffNoMarker(content) == Defined(TextDecode(content))

\* `+++ New file\n${textDecoder.decode(content)}`
NewFileDiff(content) == Defined(NewFileMarker \o TextDecode(content))

\* values one element of diffPromises resolves to
Pending == [kind |-> "pending", path |-> <<>>, diff |-> <<>>]
Null == [kind |-> "null", path |-> <<>>, diff |-> <<>>]

\* the callback's return once getFileDiff has resolved to ret:
\* { path: fileRelativePath, diff } when diff is truthy, otherwise null
FileResult(filePath, ret) ==
  IF ret.defined /\ ret.text # <<>>
  THEN [kind |-> "section", path |-> asRelativePath(filePath), diff |-> ret.text]
  ELSE Null

\* a section written the way the specification words it, without the
\* leading line break
SectionNoLeadingBreak(result) ==
  <<45, 45, 45, 32>> \o result.path \o <<32, 45, 45, 45, 10>> \o result.diff \o <<10>>

\* `\n--- ${result.path} ---\n${result.diff}\n`
Section(result) ==
  <<10, 45, 45, 45, 32>> \o result.path \o <<32, 45, 45, 45, 10>>
    \o result.diff \o <<10>>

\* the loop over results: the sections of the non-null results, in array order
RECURSIVE AppendSections(_, _, _)
AppendSections(acc, results, i) ==
  IF i > Len(results) THEN acc
  ELSE AppendSections(
         IF results[i].kind = "section" THEN acc \o Section(results[i]) ELSE acc,
         results, i + 1)

\* sections appended in the order the promises settled
CombineInSettleOrder(ts, order) ==
  AppendSections(<<>>, [k \in 1..Len(order) |-> ts[order[k]].result], 1)

\* the document built from the array Promise.all resolved to
CombineResults(ts, order) ==
  AppendSections(<<>>, [k \in 1..Len(ts) |-> ts[k].result], 1)

\* Promise.all(diffPromises) resolves when every promise has resolved
AllSettled(ts) == \A i \in 1..Len(ts) : ts[i].pc = "done"

Notify(level, kind) == notifications' = Append(notifications, [level |-> level, kind |-> kind])

(***************************************************************************)
(* getChangesDiff                                                          *)
(***************************************************************************)
\* a version that looks at the list before it looks at the environment
EntryOutcomeEmptyFirst(git, repo, paths) ==
  IF Len(paths) = 0 THEN "empty"
  ELSE IF ~git THEN "gitNotInitialized"
  ELSE IF ~repo THEN "noRepository"
  ELSE "fanOut"

\* a version without the repository check
EntryOutcomeNoRepoCheck(git, repo, paths) ==
  IF ~git THEN "gitNotInitialized"
  ELSE IF Len(paths) = 0 THEN "empty"
  ELSE "fanOut"

\* the checks at the head of getChangesDiff, in the order of the code
EntryOutcome(git, repo, paths) ==
  IF ~git THEN "gitNotInitialized"
  ELSE IF ~repo THEN "noRepository"
  ELSE IF Len(paths) = 0 THEN "empty"
  ELSE "fanOut"

\* a read whose failure leaves the marker alone as the diff
ReadReturnMarkerOnFailure(w) ==
  IF w.readOk THEN NewFileDiff(w.content) ELSE Defined(NewFileMarker)

\* getFileDiff's inner try around readFile: the synthesized diff, or
\* undefined when the read fails
ReadReturn(w) == IF w.readOk THEN NewFileDiff(w.content) ELSE Undefined

\* getFileDiff's outer try around diffWithHEAD: the diff, or undefined when
\* the call fails
DiffReturn(w) == IF w.diffOk THEN Defined(w.diff) ELSE Undefined

SetTask(i, pc, result) == tasks' = [tasks EXCEPT ![i] = [pc |-> pc, result |-> result]]

File(i) == World[filePaths[i]]

\* getFileDiff resolved to ret for diffPromises[i]: the callback returns
\* (getFileDiff catches every error itself and resolves to undefined, so the
\* callback's own catch block, which warns the user, is never entered)
Settle(i, ret) ==
  /\ SetTask(i, "done", FileResult(File(i).fsPath, ret))
  /\ settleOrder' = Append(settleOrder, i)

\* The synchronous part of a call: the two environment checks, the empty
\* list, and the map over filePaths, which runs every callback up to its
\* first await (the stat of getFileDiff).
GetChangesDiff ==
  /\ callPc = "idle"
  /\ genPc = "idle"
  /\ \E paths \in PathLists :
       /\ filePaths' = paths
       /\ settleOrder' = <<>>
       /\ IF EntryOutcome(gitExtension, repoOpen, paths)
               \in {"gitNotInitialized", "noRepository"}
          THEN /\ Notify("error", EntryOutcome(gitExtension, repoOpen, paths))
               /\ callPc' = "threw"
               /\ UNCHANGED <<tasks, allDiffs, adapterCalls>>
          ELSE IF EntryOutcome(gitExtension, repoOpen, paths) = "empty"
          THEN /\ callPc' = "returned"
               /\ allDiffs' = <<>>
               /\ UNCHANGED <<tasks, adapterCalls, notifications>>
          ELSE /\ callPc' = "running"
               /\ tasks' = [i \in 1..Len(paths) |-> [pc |-> "stat", result |-> Pending]]
               /\ adapterCalls' = {<<"stat", i>> : i \in 1..Len(paths)}
               /\ UNCHANGED <<allDiffs, notifications>>
  /\ UNCHANGED <<viewVars, keyVars, gitExtension, openai, repoOpen, genVars>>

\* vscode.workspace.fs.stat settles for file i
StatSettled(i) ==
  /\ callPc = "running"
  /\ tasks[i].pc = "stat"
  /\ IF File(i).exists
     THEN /\ SetTask(i, "show", Pending)
          /\ adapterCalls' = adapterCalls \cup {<<"show", i>>}
          /\ UNCHANGED settleOrder
     ELSE /\ Settle(i, Undefined)
          /\ UNCHANGED adapterCalls
  /\ UNCHANGED <<viewVars, keyVars, gitExtension, openai, repoOpen, callPc, filePaths, allDiffs,
                 notifications, genVars>>

\* repo.show(uri, 'HEAD') settles for file i
ShowSettled(i) ==
  /\ callPc = "running"
  /\ tasks[i].pc = "show"
  /\ IF File(i).show.kind # "none" /\ IsNewFileError(File(i).show)
     THEN /\ SetTask(i, "read", Pending)
          /\ adapterCalls' = adapterCalls \cup {<<"readFile", i>>}
     ELSE /\ SetTask(i, "diff", Pending)
          /\ adapterCalls' = adapterCalls \cup {<<"diffWithHEAD", i>>}
  /\ UNCHANGED <<viewVars, keyVars, gitExtension, openai, repoOpen, callPc, filePaths, settleOrder,
                 allDiffs, notifications, genVars>>

\* vscode.workspace.fs.readFile settles for file i
ReadSettled(i) ==
  /\ callPc = "running"
  /\ tasks[i].pc = "read"
  /\ Settle(i, ReadReturn(File(i)))
  /\ UNCHANGED <<viewVars, keyVars, gitExtension, openai, repoOpen, callPc, filePaths, allDiffs,
                 adapterCalls, notifications, genVars>>

\* repo.diffWithHEAD(uri) settles for file i
DiffSettled(i) ==
  /\ callPc = "running"
  /\ tasks[i].pc = "diff"
  /\ Settle(i, DiffReturn(File(i)))
  /\ UNCHANGED <<viewVars, keyVars, gitExtension, openai, repoOpen, callPc, filePaths, allDiffs,
                 adapterCalls, notifications, genVars>>

\* await Promise.all(diffPromises), the loop over results, return allDiffs
JoinAndReturn ==
  /\ callPc = "running"
  /\ AllSettled(tasks)
  /\ allDiffs' = CombineResults(tasks, settleOrder)
  /\ callPc' = "returned"
  /\ UNCHANGED <<viewVars, keyVars, gitExtension, openai, repoOpen, filePaths, tasks, settleOrder,
                 adapterCalls, notifications, genVars>>

\* the caller has taken the result (or the exception); the provider is idle
DiffCallOver ==
  /\ callPc \in {"returned", "threw"}
  /\ callPc' = "idle"
  /\ filePaths' = <<>>
  /\ tasks' = <<>>
  /\ settleOrder' = <<>>
  /\ allDiffs' = <<>>
  /\ adapterCalls' = {}
  /\ notifications' = <<>>
  /\ UNCHANGED <<viewVars, keyVars, gitExtension, openai, repoOpen, genVars>>

\* the user opens or closes the repository of the workspace between calls
RepositoriesChanged ==
  /\ callPc = "idle"
  /\ genPc = "idle"
  /\ repoOpen' = ~repoOpen
  /\ UNCHANGED <<viewVars, keyVars, gitExtension, openai, diffVars, notifications, genVars>>

(***************************************************************************)
(* generateCommitMessage and addEmojiToCommitMessage                       *)
(***************************************************************************)
\* '<U+2728> feat: implement requested changes' (U+2728 is the sparkles emoji)
DefaultMessage ==
  <<10024, 32, 102, 101, 97, 116, 58, 32, 105, 109, 112, 108, 101, 109,
    101, 110, 116, 32, 114, 101, 113, 117, 101, 115, 116, 101, 100, 32,
    99, 104, 97, 110, 103, 101, 115>>

\* emojiMap: the own properties of the object literal, <<type, emoji>>, for
\* feat, fix, docs, style, refactor, perf, test, chore, build, ci
emojiMap ==
  {<<<<102, 101, 97, 116>>, <<10024>>>>,
   <<<<102, 105, 120>>, <<128027>>>>,
   <<<<100, 111, 99, 115>>, <<128218>>>>,
   <<<<115, 116, 121, 108, 101>>, <<128132>>>>,
   <<<<114, 101, 102, 97, 99, 116, 111, 114>>, <<9851, 65039>>>>,
   <<<<112, 101, 114, 102>>, <<9889>>>>,
   <<<<116, 101, 115, 116>>, <<9989>>>>,
   <<<<99, 104, 111, 114, 101>>, <<128295>>>>,
   <<<<98, 117, 105, 108, 100>>, <<127959, 65039>>>>,
   <<<<99, 105>>, <<128260>>>>}

\* properties every object literal inherits from Object.prototype, with the
\* text their value converts to in a template string: constructor, toString
InheritedMembers ==
  {<<<<99, 111, 110, 115, 116, 114, 117, 99, 116, 111, 114>>,
     <<102, 117, 110, 99, 116, 105, 111, 110, 32, 79, 98, 106, 101, 99, 116,
       40, 41, 32, 123, 32, 91, 110, 97, 116, 105, 118, 101, 32, 99, 111,
       100, 101, 93, 32, 125>>>>,
   <<<<116, 111, 83, 116, 114, 105, 110, 103>>,
     <<102, 117, 110, 99, 116, 105, 111, 110, 32, 116, 111, 83, 116, 114,
       105, 110, 103, 40, 41, 32, 123, 32, 91, 110, 97, 116, 105, 118, 101,
       32, 99, 111, 100, 101, 93, 32, 125>>>>}

\* code points String.prototype.trim strips (WhiteSpace and LineTerminator)
WhiteSpace ==
  {9, 10, 11, 12, 13, 32, 160, 5760, 8232, 8233, 8239, 8287, 12288, 65279}
    \cup (8192..8202)

\* \w
IsWordChar(c) == c \in (48..57) \cup (65..90) \cup (97..122) \cup {95}

\* code points `.` does not match
LineTerminators == {10, 13, 8232, 8233}

\* \p{Emoji}, over the code points that occur in the model's texts: the
\* keycap bases # * 0-9, (c), (r), and the pictographs
EmojiProperty ==
  {35, 42} \cup (48..57) \cup {169, 174}
    \cup {10024, 128027, 128218, 128132, 9851, 9889, 9989, 128295, 127959,
          128260, 128640}

\* /^\p{Emoji}/u.test(commitMessage)
StartsWithEmoji(text) == Len(text) > 0 /\ text[1] \in EmojiProperty

RECURSIVE TrimStart(_)
TrimStart(text) ==
  IF Len(text) > 0 /\ Head(text) \in WhiteSpace THEN TrimStart(Tail(text)) ELSE text

RECURSIVE TrimEnd(_)
TrimEnd(text) ==
  IF Len(text) > 0 /\ text[Len(text)] \in WhiteSpace
  THEN TrimEnd(SubSeq(text, 1, Len(text) - 1))
  ELSE text

\* String.prototype.trim
Trim(text) == TrimEnd(TrimStart(text))

\* the length of the longest prefix of word characters
RECURSIVE WordPrefixLen(_, _)
WordPrefixLen(text, n) ==
  IF n < Len(text) /\ IsWordChar(text[n + 1]) THEN WordPrefixLen(text, n + 1) ELSE n

NoMatch == [matched |-> FALSE, type |-> <<>>]

\* commitMessage.match(/^(\w+)(\(.*?\))?:/): group 1 when the text starts
\* with word characters followed by ":" or by "(...)" on one line and ":"
MatchType(text) ==
  LET w == WordPrefixLen(text, 0)
  IN IF w = 0 \/ w >= Len(text) THEN NoMatch
     ELSE IF text[w + 1] = 58 THEN [matched |-> TRUE, type |-> SubSeq(text, 1, w)]
     ELSE IF /\ text[w + 1] = 40
             /\ \E j \in (w + 2)..(Len(text) - 1) :
                  /\ text[j] = 41
                  /\ text[j + 1] = 58
                  /\ \A k \in (w + 2)..(j - 1) : text[k] \notin LineTerminators
     THEN [matched |-> TRUE, type |-> SubSeq(text, 1, w)]
     ELSE NoMatch

\* typeMatch ? typeMatch[1] : 'feat'
TypeOf(text) == IF MatchType(text).matched THEN MatchType(text).type ELSE <<102, 101, 97, 116>>

\* emojiMap[type] || '<U+2728>': an own property, else an inherited one, else '<U+2728>'
EmojiFor(type) ==
  IF \E p \in emojiMap : p[1] = type
  THEN (CHOOSE p \in emojiMap : p[1] = type)[2]
  ELSE IF \E p \in InheritedMembers : p[1] = type
  THEN (CHOOSE p \in InheritedMembers : p[1] = type)[2]
  ELSE <<10024>>

\* addEmojiToCommitMessage
addEmojiToCommitMessage(commitMessage, type) ==
  IF StartsWithEmoji(commitMessage)
  THEN commitMessage
  ELSE EmojiFor(type) \o <<32>> \o commitMessage

\* a fallback that yields the empty string
ContentOrEmpty(content) == IF content.defined THEN Trim(content.text) ELSE <<>>

\* response.choices[0]?.message?.content?.trim() || '<U+2728> feat: ...'
ContentOrDefault(content) ==
  IF content.defined /\ Trim(content.text) # <<>>
  THEN Trim(content.text)
  ELSE DefaultMessage

\* the try block after the response arrived: extract, classify, add the emoji
MessageFromContent(content) ==
  addEmojiToCommitMessage(ContentOrDefault(content), TypeOf(ContentOrDefault(content)))

\* "API key", "network", "timeout"
TextApiKey == <<65, 80, 73, 32, 107, 101, 121>>
TextNetwork == <<110, 101, 116, 119, 111, 114, 107>>
TextTimeout == <<116, 105, 109, 101, 111, 117, 116>>

\* a catch block that tests for "network" first
ErrorNotificationNetworkFirst(error) ==
  IF ~error.isError THEN "generationFailedGeneric"
  ELSE IF Includes(error.message, TextNetwork) THEN "networkError"
  ELSE IF Includes(error.message, TextApiKey) THEN "invalidApiKey"
  ELSE IF Includes(error.message, TextTimeout) THEN "requestTimeout"
  ELSE "generationFailed"

\* the catch block: which showErrorMessage is shown for the caught value
ErrorNotification(error) ==
  IF ~error.isError THEN "generationFailedGeneric"
  ELSE IF Includes(error.message, TextApiKey) THEN "invalidApiKey"
  ELSE IF Includes(error.message, TextNetwork) THEN "networkError"
  ELSE IF Includes(error.message, TextTimeout) THEN "requestTimeout"
  ELSE "generationFailed"

\* texts choices[0].message.content can hold:
\*   'fix(parser): correct off-by-one'
\*   'feat: a'
\*   'docs: a'
\*   'style: a'
\*   'refactor: a'
\*   'perf: a'
\*   'test: a'
\*   'chore: a'
\*   'build: a'
\*   'ci: a'
\*   'wip: a'
\*   'update readme'
\*   '<U+2728> feat: a'
\*   '<U+1F41B> fix: a'
\*   '  fix: a \n'
\*   ' \n '
\*   ''
\*   '2fa: add login'
\*   '# Title'
\*   '* item'
\*   '- fix: a'
\*   'constructor: a'
\*   'Fix: a'
\*   'fix!: a'
\*   'fix(a\nb): c'
CompletionTexts ==
  {<<102, 105, 120, 40, 112, 97, 114, 115, 101, 114, 41, 58, 32, 99, 111,
     114, 114, 101, 99, 116, 32, 111, 102, 102, 45, 98, 121, 45, 111, 110,
     101>>,
   <<102, 101, 97, 116, 58, 32, 97>>,
   <<100, 111, 99, 115, 58, 32, 97>>,
   <<115, 116, 121, 108, 101, 58, 32, 97>>,
   <<114, 101, 102, 97, 99, 116, 111, 114, 58, 32, 97>>,
   <<112, 101, 114, 102, 58, 32, 97>>,
   <<116, 101, 115, 116, 58, 32, 97>>,
   <<99, 104, 111, 114, 101, 58, 32, 97>>,
   <<98, 117, 105, 108, 100, 58, 32, 97>>,
   <<99, 105, 58, 32, 97>>,
   <<119, 105, 112, 58, 32, 97>>,
   <<117, 112, 100, 97, 116, 101, 32, 114, 101, 97, 100, 109, 101>>,
   <<10024, 32, 102, 101, 97, 116, 58, 32, 97>>,
   <<128027, 32, 102, 105, 120, 58, 32, 97>>,
   <<32, 32, 102, 105, 120, 58, 32, 97, 32, 10>>,
   <<32, 10, 32>>,
   <<>>,
   <<50, 102, 97, 58, 32, 97, 100, 100, 32, 108, 111, 103, 105, 110>>,
   <<35, 32, 84, 105, 116, 108, 101>>,
   <<42, 32, 105, 116, 101, 109>>,
   <<45, 32, 102, 105, 120, 58, 32, 97>>,
   <<99, 111, 110, 115, 116, 114, 117, 99, 116, 111, 114, 58, 32, 97>>,
   <<70, 105, 120, 58, 32, 97>>,
   <<102, 105, 120, 33, 58, 32, 97>>,
   <<102, 105, 120, 40, 97, 10, 98, 41, 58, 32, 99>>}

\* values a rejected chat.completions.create can carry: Error instances with
\* a message, and values that are no Error (a text, or none)
\*   Error 'Incorrect API key'
\*   Error 'network error'
\*   Error 'timeout exceeded'
\*   Error 'Connection error.'
\*   Error 'network timeout, check API key'
\*   Error 'network timeout'
\*   other 'bad API key'
\*   other ''
CompletionErrors ==
  {[isError |-> TRUE, message |->
      <<73, 110, 99, 111, 114, 114, 101, 99, 116, 32, 65, 80, 73, 32, 107,
        101, 121>>],
   [isError |-> TRUE, message |->
      <<110, 101, 116, 119, 111, 114, 107, 32, 101, 114, 114, 111, 114>>],
   [isError |-> TRUE, message |->
      <<116, 105, 109, 101, 111, 117, 116, 32, 101, 120, 99, 101, 101, 100,
        101, 100>>],
   [isError |-> TRUE, message |->
      <<67, 111, 110, 110, 101, 99, 116, 105, 111, 110, 32, 101, 114, 114,
        111, 114, 46>>],
   [isError |-> TRUE, message |->
      <<110, 101, 116, 119, 111, 114, 107, 32, 116, 105, 109, 101, 111, 117,
        116, 44, 32, 99, 104, 101, 99, 107, 32, 65, 80, 73, 32, 107, 101,
        121>>],
   [isError |-> TRUE, message |->
      <<110, 101, 116, 119, 111, 114, 107, 32, 116, 105, 109, 101, 111, 117,
        116>>],
   [isError |-> FALSE, message |->
      <<98, 97, 100, 32, 65, 80, 73, 32, 107, 101, 121>>],
   [isError |-> FALSE, message |->
      <<>>]}

\* the TypeError of reading [0] of a response without a choices array
MalformedResponseError ==
  [isError |-> TRUE, message |->
     <<67, 97, 110, 110, 111, 116, 32, 114, 101, 97, 100, 32, 112, 114, 111,
       112, 101, 114, 116, 105, 101, 115, 32, 111, 102, 32, 117, 110, 100,
       101, 102, 105, 110, 101, 100, 32, 40, 114, 101, 97, 100, 105, 110,
       103, 32, 39, 48, 39, 41>>]

\* how chat.completions.create can settle: a response whose first choice
\* holds a text, a response with no choice / no message / null content, a
\* response without a choices array, or a rejection
CompletionOutcomes ==
  {[kind |-> "content", content |-> Defined(t), error |-> MalformedResponseError]
     : t \in CompletionTexts}
  \cup {[kind |-> k, content |-> Undefined, error |-> MalformedResponseError]
          : k \in {"noChoices", "noMessage", "nullContent", "noChoicesArray"}}
  \cup {[kind |-> "rejected", content |-> Undefined, error |-> e]
          : e \in CompletionErrors}

\* no request has settled
NoCompletion == [kind |-> "none", content |-> Undefined, error |-> MalformedResponseError]

\* what the code between the await and the end of the try block throws
ThrowsInTry(outcome) == outcome.kind \in {"rejected", "noChoicesArray"}

\* the diffContent arguments: the empty document and a one-file document
DiffInputs == {<<>>, Section([path |-> <<97>>, diff |-> <<45, 120, 10, 43, 121>>])}

\* a catch block that sends the request once more
RequestsAfterRetry(log, diffContent) == Append(log, diffContent)

\* the requests sent once the catch block has run: it logs, notifies and
\* returns the default message, and calls the completion service no more
RequestsAfterCatch(log, diffContent) == log

\* no key: the empty string or undefined, both falsy
NoKey == <<>>

\* the keys a user has: 'sk-a' and 'sk-b'
Keys == {<<115, 107, 45, 97>>, <<115, 107, 45, 98>>}

\* initOpenAI: the key of the client it creates from the setting or, when
\* that is empty, the environment; no client when both are empty
InitOpenAI(setting, env) == IF setting # NoKey THEN setting ELSE env

\* a call that looks the credential up again
ClientOfConfiguration(key, setting, env) == InitOpenAI(setting, env)

\* the client a call of generateCommitMessage uses: this.openai, whatever
\* the setting and the environment hold by now
ClientOfCall(key, setting, env) == key

\* the user changes or removes the setting or the environment variable; the
\* provider listens to no configuration change
ConfigurationChanged ==
  /\ \E k \in Keys \cup {NoKey} :
       \/ k # settingsKey /\ settingsKey' = k /\ UNCHANGED envKey
       \/ k # envKey /\ envKey' = k /\ UNCHANGED settingsKey
  /\ UNCHANGED <<viewVars, apiKey, gitExtension, openai, repoOpen, diffVars,
                 notifications, genVars>>

\* the guard in front of the try block and the request
GenerateCommitMessage ==
  /\ genPc = "idle"
  /\ callPc = "idle"
  /\ \E diffContent \in DiffInputs :
       /\ genDiff' = diffContent
       /\ genKey' = ClientOfCall(apiKey, settingsKey, envKey)
       /\ IF ClientOfCall(apiKey, settingsKey, envKey) = NoKey
          THEN /\ genPc' = "threw"
               /\ UNCHANGED requestLog
          ELSE /\ genPc' = "awaiting"
               /\ requestLog' = Append(requestLog, diffContent)
  /\ UNCHANGED <<viewVars, keyVars, gitExtension, openai, repoOpen, diffVars, notifications, genReturn,
                 completion>>

\* the awaited request settles: the rest of the try block, or the catch block
CompletionSettled ==
  /\ genPc = "awaiting"
  /\ \E outcome \in CompletionOutcomes :
       /\ completion' = outcome
       /\ IF ThrowsInTry(outcome)
          THEN /\ Notify("error", ErrorNotification(outcome.error))
               /\ genReturn' = DefaultMessage
               /\ requestLog' = RequestsAfterCatch(requestLog, genDiff)
          ELSE /\ genReturn' = MessageFromContent(outcome.content)
               /\ UNCHANGED <<notifications, requestLog>>
  /\ genPc' = "returned"
  /\ UNCHANGED <<viewVars, keyVars, gitExtension, openai, repoOpen, diffVars, genDiff,
                 genKey>>

\* the caller has taken the message (or the exception)
GenCallOver ==
  /\ genPc \in {"returned", "threw"}
  /\ genPc' = "idle"
  /\ genDiff' = <<>>
  /\ genReturn' = <<>>
  /\ requestLog' = <<>>
  /\ completion' = NoCompletion
  /\ genKey' = NoKey
  /\ notifications' = <<>>
  /\ UNCHANGED <<viewVars, keyVars, gitExtension, openai, repoOpen, diffVars>>

(***************************************************************************)
(* The review surface: CommitViewProvider and the extension's commands     *)
(***************************************************************************)
\* repo.state.workingTreeChanges of the open repository
WorkingTreeChanges == <<"mod">>

\* vscode.Uri.file(filePath).fsPath: a path without a leading slash gets one
UriFile(path) == IF Len(path) > 0 /\ path[1] = 47 THEN path ELSE <<47>> \o path

\* the file system and repository at a path: a file of the world, or nothing
FileAt(path) ==
  IF \E id \in FileIds : World[id].fsPath = path
  THEN World[CHOOSE id \in FileIds : World[id].fsPath = path]
  ELSE [fsPath |-> path, exists |-> FALSE, show |-> NoError, content |-> <<>>,
        readOk |-> FALSE, diffOk |-> FALSE, diff |-> <<>>]

\* what getFileDiff resolves to for a file
FileDiffReturn(w) ==
  IF ~w.exists THEN Undefined
  ELSE IF w.show.kind # "none" /\ IsNewFileError(w.show) THEN ReadReturn(w)
  ELSE DiffReturn(w)

\* what getChangesDiff resolves to for a non-empty list, once the two
\* environment checks have passed: the sections of the files in input order
ChangesDiff(paths) ==
  AppendSections(<<>>,
    [k \in 1..Len(paths) |->
       FileResult(paths[k], FileDiffReturn(FileAt(UriFile(paths[k]))))], 1)

\* String.prototype.trim() === ''
IsBlank(text) == Trim(text) = <<>>

\* the value a textarea element gets from the text between its tags: a line
\* break right after the start tag is dropped and the text ends where an end
\* tag of the element begins
TextareaValue(text) ==
  LET body == IF Len(text) > 0 /\ text[1] = 10 THEN Tail(text) ELSE text
      endTag == <<60, 47, 116, 101, 120, 116, 97, 114, 101, 97>>
      ends == {i \in 1..Len(body) : OccursAt(body, i, endTag)}
  IN IF ends = {} THEN body
     ELSE SubSeq(body, 1, (CHOOSE i \in ends : \A j \in ends : i <= j) - 1)

\* the page has no commit-message element
NoTextarea == [present |-> FALSE, value |-> <<>>]

\* the commit-message element of a freshly loaded page
TextareaOf(message) ==
  IF message = <<>> THEN NoTextarea
  ELSE [present |-> TRUE, value |-> TextareaValue(message)]

\* no page was set yet
NoHtml == [set |-> FALSE, files |-> <<>>, commitMessage |-> <<>>, diffContent |-> <<>>]

\* _getHtmlForWebview: the file list, and the message with the diff when the
\* message is not empty
GetHtmlForWebview(message, diff, files) ==
  [set |-> TRUE, files |-> files, commitMessage |-> message,
   diffContent |-> IF message = <<>> THEN <<>> ELSE diff]

\* _updateWebview: nothing without a view; otherwise the page is set, and the
\* webview loads it (losing what was typed) when it differs from the one set
UpdateWebview(view, message, diff, files) ==
  IF view
  THEN /\ html' = GetHtmlForWebview(message, diff, files)
       /\ textarea' = IF html = GetHtmlForWebview(message, diff, files)
                      THEN textarea
                      ELSE TextareaOf(message)
  ELSE UNCHANGED <<html, textarea>>

Note(level, kind) == [level |-> level, kind |-> kind]

\* the paths _loadChangedFiles stores
LoadedFiles ==
  [k \in 1..Len(WorkingTreeChanges) |->
     asRelativePath(World[WorkingTreeChanges[k]].fsPath)]

\* what _loadChangedFiles shows: an error when the git extension or the
\* repository is missing
LoadNotes ==
  IF gitExtension /\ repoOpen THEN <<>> ELSE <<Note("error", "loadFilesFailed")>>

\* _loadChangedFiles, for a view that is set or not: the list is replaced and
\* the page updated, or the error is shown and nothing changes
LoadChangedFiles(view) ==
  IF gitExtension /\ repoOpen
  THEN /\ _changedFiles' = LoadedFiles
       /\ UpdateWebview(view, _commitMessage, _diffContent, LoadedFiles)
  ELSE UNCHANGED <<_changedFiles, html, textarea>>

\* resolveWebviewView: the view is kept, the file list loaded and the page
\* set for the first time
ResolveWebviewView ==
  /\ ~_view
  /\ _view' = TRUE
  /\ _changedFiles' = IF gitExtension /\ repoOpen THEN LoadedFiles ELSE _changedFiles
  /\ html' = GetHtmlForWebview(_commitMessage, _diffContent, _changedFiles')
  /\ textarea' = TextareaOf(_commitMessage)
  /\ notifications' = LoadNotes
  /\ UNCHANGED <<keyVars, gitExtension, openai, repoOpen, diffVars, genVars, _commitMessage,
                 _diffContent, inputBox, requests, lastCompleted>>

\* the 'refreshFiles' message of the page's refresh button
RefreshFiles ==
  /\ _view
  /\ LoadChangedFiles(TRUE)
  /\ notifications' = LoadNotes
  /\ UNCHANGED <<keyVars, gitExtension, openai, repoOpen, diffVars, genVars, _view,
                 _commitMessage, _diffContent, inputBox, requests, lastCompleted>>

\* the command commit-with-ai.refreshFiles
RefreshFilesCommand ==
  /\ LoadChangedFiles(_view)
  /\ notifications' = LoadNotes \o <<Note("info", "filesRefreshed")>>
  /\ UNCHANGED <<keyVars, gitExtension, openai, repoOpen, diffVars, genVars, _view,
                 _commitMessage, _diffContent, inputBox, requests, lastCompleted>>

\* the command commit-with-ai.generateCommitMessage: it shows the view,
\* reloads the file list, tells the user to select files, and returns
GenerateCommitMessageCommand ==
  /\ LoadChangedFiles(_view)
  /\ notifications' = LoadNotes \o <<Note("info", "selectFilesHint")>>
  /\ UNCHANGED <<keyVars, gitExtension, openai, repoOpen, diffVars, genVars, _view,
                 _commitMessage, _diffContent, inputBox, requests, lastCompleted>>

\* the 'regenerate' message of the page's regenerate button:
\* _regenerateCommitMessage runs the command above
Regenerate ==
  /\ _view
  /\ textarea.present
  /\ LoadChangedFiles(TRUE)
  /\ notifications' = <<Note("info", "regenerating")>> \o LoadNotes
                        \o <<Note("info", "selectFilesHint")>>
  /\ UNCHANGED <<keyVars, gitExtension, openai, repoOpen, diffVars, genVars, _view,
                 _commitMessage, _diffContent, inputBox, requests, lastCompleted>>

\* a version of the checks that takes the first repository for granted
ApplyOutcomeNoRepoCheck(ext, repo) == IF ~ext THEN "noExtension" ELSE "applied"

\* the checks of _applyCommitMessage: the git extension, then the repository
ApplyOutcome(ext, repo) ==
  IF ~ext THEN "noExtension" ELSE IF ~repo THEN "noRepository" ELSE "applied"

\* the 'applyCommit' message of the page's apply button, carrying the value
\* of the commit-message element
ApplyCommit ==
  /\ _view
  /\ textarea.present
  /\ IF ApplyOutcome(gitExtension, repoOpen) = "applied"
     THEN /\ inputBox' = textarea.value
          /\ notifications' = <<Note("info", "commitApplied")>>
     ELSE /\ UNCHANGED inputBox
          /\ notifications' = <<Note("error", "applyFailed")>>
  /\ UNCHANGED <<keyVars, gitExtension, openai, repoOpen, diffVars, genVars, _view,
                 _commitMessage, _diffContent, _changedFiles, html, textarea,
                 requests, lastCompleted>>

\* what the user types into the commit-message element
EditTexts == {<<102, 105, 120, 58, 32, 116, 121, 112, 111>>}

\* the user edits the text of the commit-message element: the page posts no
\* message for it and the provider handles none, so only the element changes
EditedByUser ==
  /\ _view
  /\ textarea.present
  /\ \E text \in EditTexts :
       /\ text # textarea.value
       /\ textarea' = [present |-> TRUE, value |-> text]
  /\ notifications' = <<>>
  /\ UNCHANGED <<keyVars, gitExtension, openai, repoOpen, diffVars, genVars, _view,
                 _commitMessage, _diffContent, _changedFiles, html, inputBox,
                 requests, lastCompleted>>

\* the paths of the checked boxes of the page's file list, in list order
RECURSIVE Checked(_, _, _)
Checked(files, boxes, i) ==
  IF i > Len(files) THEN <<>>
  ELSE (IF i \in boxes THEN <<files[i]>> ELSE <<>>) \o Checked(files, boxes, i + 1)

\* the fileUris arguments of commit-with-ai.generateWithSelected, as files
CommandFileLists == {<<>>, <<"same">>, <<"new", "mod">>}

\* how the completion request of a generation started from the surface
\* settles: two texts and a rejection
ViewOutcomes ==
  {o \in CompletionOutcomes :
     \/ /\ o.kind = "content"
        /\ o.content.text \in
             {<<102, 105, 120, 40, 112, 97, 114, 115, 101, 114, 41, 58, 32, 99,
                111, 114, 114, 101, 99, 116, 32, 111, 102, 102, 45, 98, 121, 45,
                111, 110, 101>>,
              <<117, 112, 100, 97, 116, 101, 32, 114, 101, 97, 100, 109, 101>>}
     \/ /\ o.kind = "rejected"
        /\ o.error.isError
        /\ o.error.message =
             <<110, 101, 116, 119, 111, 114, 107, 32, 101, 114, 114, 111, 114>>}

\* the locals of one run of a generation handler
Request(entry, selectedFiles, pc) ==
  [entry |-> entry, selectedFiles |-> selectedFiles, pc |-> pc, diffContent |-> <<>>]

\* a handler run that has ended: "done" (it reached updateContent), "failed"
\* (its catch block ran) or "skipped" (it returned early with a warning)
Ended(pc) == Request("none", <<>>, pc)

\* no run has reached updateContent
NoneCompleted == [request |-> 0, commitMessage |-> <<>>, diffContent |-> <<>>]

\* a handler run has not ended: it awaits getChangesDiff or the completion
Outstanding(request) == request.pc \in {"diffing", "generating"}

\* a generation handler up to its first suspension, for either entry point:
\* an empty selection ends it with a warning; getChangesDiff's environment
\* checks end it with the provider's and the handler's error messages;
\* otherwise it awaits getChangesDiff
StartRequest(entry, selectedFiles, progressNotes) ==
  /\ Len(requests) < MaxRequests
  /\ IF selectedFiles = <<>>
     THEN /\ requests' = Append(requests, Ended("skipped"))
          /\ notifications' = <<Note("warning", "noFilesSelected")>>
     ELSE IF EntryOutcome(gitExtension, repoOpen, selectedFiles) # "fanOut"
     THEN /\ requests' = Append(requests, Ended("failed"))
          /\ notifications' =
               progressNotes
                 \o <<Note("error", EntryOutcome(gitExtension, repoOpen, selectedFiles)),
                      Note("error", "generationFailedInHandler")>>
     ELSE /\ requests' = Append(requests, Request(entry, selectedFiles, "diffing"))
          /\ notifications' = progressNotes
  /\ UNCHANGED <<keyVars, gitExtension, openai, repoOpen, diffVars, genVars, _view,
                 _commitMessage, _diffContent, _changedFiles, html, textarea,
                 inputBox, lastCompleted>>

\* the 'generateCommit' message of the page's generate button, carrying the
\* paths of the checked files as the page lists them
GenerateCommit ==
  /\ _view
  /\ html.files # <<>>
  /\ \E boxes \in SUBSET (1..Len(html.files)) :
       StartRequest("webview", Checked(html.files, boxes, 1),
                    <<Note("info", "generating")>>)

\* the command commit-with-ai.generateWithSelected, given the uris of files
GenerateWithSelected ==
  \E files \in CommandFileLists :
    StartRequest("command", [k \in 1..Len(files) |-> World[files[k]].fsPath], <<>>)

\* an update that replaces the message and leaves the diff
UpdateContentMessageOnly(commitMessage, diffContent) ==
  /\ _commitMessage' = commitMessage
  /\ UNCHANGED _diffContent
  /\ UpdateWebview(_view, commitMessage, _diffContent, _changedFiles)

\* updateContent: both fields are assigned, then the page is updated
UpdateContent(commitMessage, diffContent) ==
  /\ _commitMessage' = commitMessage
  /\ _diffContent' = diffContent
  /\ UpdateWebview(_view, commitMessage, diffContent, _changedFiles)

\* getChangesDiff resolves for request r and the handler goes on: the
\* command stops with a warning when the diff is blank; then
\* generateCommitMessage is called, which throws without a client (the
\* handler's catch block shows the error) and otherwise sends the request
DiffResolved(r) ==
  /\ requests[r].pc = "diffing"
  /\ LET diffContent == ChangesDiff(requests[r].selectedFiles)
     IN IF requests[r].entry = "command" /\ IsBlank(diffContent)
        THEN /\ requests' = [requests EXCEPT ![r] = Ended("skipped")]
             /\ notifications' = <<Note("warning", "noChanges")>>
        ELSE IF ~openai
        THEN /\ requests' = [requests EXCEPT ![r] = Ended("failed")]
             /\ notifications' = <<Note("error", "generationFailedInHandler")>>
        ELSE /\ requests' = [requests EXCEPT ![r].pc = "generating",
                                             ![r].diffContent = diffContent]
             /\ notifications' = <<>>
  /\ UNCHANGED <<keyVars, gitExtension, openai, repoOpen, diffVars, genVars, _view,
                 _commitMessage, _diffContent, _changedFiles, html, textarea,
                 inputBox, lastCompleted>>

\* the completion request of request r settles: generateCommitMessage
\* returns the message (the default one from its catch block), and the
\* handler passes it with its diff to updateContent
GenerationSettled(r) ==
  /\ requests[r].pc = "generating"
  /\ \E outcome \in ViewOutcomes :
       LET commitMessage == IF ThrowsInTry(outcome) THEN DefaultMessage
                            ELSE MessageFromContent(outcome.content)
       IN /\ UpdateContent(commitMessage, requests[r].diffContent)
          /\ requests' = [requests EXCEPT ![r] = Ended("done")]
          /\ lastCompleted' = [request |-> r, commitMessage |-> commitMessage,
                               diffContent |-> requests[r].diffContent]
          /\ notifications' =
               (IF ThrowsInTry(outcome)
                THEN <<Note("error", ErrorNotification(outcome.error))>> ELSE <<>>)
               \o (IF requests[r].entry = "command"
                   THEN <<Note("info", "generated")>> ELSE <<>>)
  /\ UNCHANGED <<keyVars, gitExtension, openai, repoOpen, diffVars, genVars, _view,
                 _changedFiles, inputBox>>

\* a repository is opened or closed while the surface is in use
ViewRepositoriesChanged ==
  /\ repoOpen' = ~repoOpen
  /\ notifications' = <<>>
  /\ UNCHANGED <<keyVars, gitExtension, openai, diffVars, genVars, viewVars>>

(***************************************************************************)
(* Specifications                                                          *)
(***************************************************************************)
\* The state after new AiCommitProvider(context) and new CommitViewProvider:
\* initGitExtension and initOpenAI have run, each with either outcome; the
\* review surface has no view, no message and no diff.
Init ==
  /\ gitExtension \in BOOLEAN
  /\ settingsKey \in {NoKey, <<115, 107, 45, 97>>}
  /\ envKey \in {NoKey, <<115, 107, 45, 98>>}
  /\ apiKey = InitOpenAI(settingsKey, envKey)
  /\ openai = (apiKey # NoKey)
  /\ genKey = NoKey
  /\ repoOpen \in BOOLEAN
  /\ callPc = "idle"
  /\ filePaths = <<>>
  /\ tasks = <<>>
  /\ settleOrder = <<>>
  /\ allDiffs = <<>>
  /\ adapterCalls = {}
  /\ notifications = <<>>
  /\ genPc = "idle"
  /\ genDiff = <<>>
  /\ genReturn = <<>>
  /\ requestLog = <<>>
  /\ completion = NoCompletion
  /\ _view = FALSE
  /\ _commitMessage = <<>>
  /\ _diffContent = <<>>
  /\ _changedFiles = <<>>
  /\ html = NoHtml
  /\ textarea = NoTextarea
  /\ inputBox = <<>>
  /\ requests = <<>>
  /\ lastCompleted = NoneCompleted

NextDiff ==
  \/ GetChangesDiff
  \/ \E i \in 1..Len(tasks) : StatSettled(i)
  \/ \E i \in 1..Len(tasks) : ShowSettled(i)
  \/ \E i \in 1..Len(tasks) : ReadSettled(i)
  \/ \E i \in 1..Len(tasks) : DiffSettled(i)
  \/ JoinAndReturn
  \/ DiffCallOver
  \/ RepositoriesChanged

\* the provider under calls of getChangesDiff
SpecDiff == Init /\ [][NextDiff]_vars
NextGen ==
  \/ GenerateCommitMessage
  \/ CompletionSettled
  \/ GenCallOver
  \/ ConfigurationChanged

\* the provider under calls of generateCommitMessage
SpecGen == Init /\ [][NextGen]_vars

NextView ==
  \/ ResolveWebviewView
  \/ RefreshFiles
  \/ RefreshFilesCommand
  \/ GenerateCommitMessageCommand
  \/ Regenerate
  \/ ApplyCommit
  \/ EditedByUser
  \/ GenerateCommit
  \/ GenerateWithSelected
  \/ \E r \in 1..Len(requests) : DiffResolved(r)
  \/ \E r \in 1..Len(requests) : GenerationSettled(r)
  \/ ViewRepositoriesChanged

\* the review surface under its messages, the commands, and the generation
\* requests they start, whose awaited calls settle in any order
SpecView == Init /\ [][NextView]_vars

(***************************************************************************)
(* Properties of getChangesDiff                                            *)
(***************************************************************************)
\* the text starts with the pattern at index i
MatchesAt(text, i, pattern) ==
  /\ i + Len(pattern) - 1 <= Len(text)
  /\ \A j \in 1..Len(pattern) : text[i + j - 1] = pattern[j]

\* the paths named by the "\n--- <path> ---\n" header lines of a document,
\* in the order they appear
RECURSIVE HeaderPaths(_, _)
HeaderPaths(text, i) ==
  IF i > Len(text) THEN <<>>
  ELSE IF /\ MatchesAt(text, i, <<10, 45, 45, 45, 32>>)
          /\ \E j \in (i + 5)..Len(text) : MatchesAt(text, j, <<32, 45, 45, 45, 10>>)
  THEN LET j == CHOOSE j \in (i + 5)..Len(text) :
                  /\ MatchesAt(text, j, <<32, 45, 45, 45, 10>>)
                  /\ \A k \in (i + 5)..(j - 1) : ~MatchesAt(text, k, <<32, 45, 45, 45, 10>>)
       IN <<SubSeq(text, i + 5, j - 1)>> \o HeaderPaths(text, j + 5)
  ELSE HeaderPaths(text, i + 1)

\* the HEAD lookup of the file is answered with an error the code takes for
\* "new file": UnknownPath, NotAGitRepository, or the "did not match" message
ClassifiedNew(w) ==
  /\ w.show.kind = "object"
  /\ \/ (w.show.hasCode /\ w.show.gitErrorCode \in {"UnknownPath", "NotAGitRepository"})
     \/ (w.show.hasMessage /\ Includes(w.show.message, NoMatchText))

\* the HEAD lookup reports "not tracked": the UnknownPath code or the message
NotTracked(w) ==
  /\ w.show.kind = "object"
  /\ \/ (w.show.hasCode /\ w.show.gitErrorCode = "UnknownPath")
     \/ (w.show.hasMessage /\ Includes(w.show.message, NoMatchText))

\* the file has a retrievable, non-empty diff
Retrievable(w) ==
  /\ w.exists
  /\ IF ClassifiedNew(w) THEN w.readOk ELSE w.diffOk /\ w.diff # <<>>

\* the relative paths of the files of the call, in input order
InputPaths == [i \in 1..Len(filePaths) |-> asRelativePath(World[filePaths[i]].fsPath)]

\* C1: when every selected file has a retrievable, non-empty diff, the call
\* returns only after every per-file retrieval has completed, and the
\* document holds exactly one section per file, in the order of the input,
\* whatever order the retrievals completed in.
C1_JoinedInInputOrder ==
  (/\ callPc = "returned"
   /\ \A i \in 1..Len(filePaths) : Retrievable(World[filePaths[i]]))
  => /\ Len(tasks) = Len(filePaths)
     /\ \A i \in 1..Len(tasks) : tasks[i].pc = "done"
     /\ HeaderPaths(allDiffs, 1) = InputPaths

\* two different files were selected, the second one's retrieval completed
\* first, and the call has returned
C1_Witness ==
  /\ callPc = "returned"
  /\ Len(filePaths) = 2
  /\ filePaths[1] # filePaths[2]
  /\ \A i \in 1..2 : Retrievable(World[filePaths[i]])
  /\ settleOrder = <<2, 1>>

\* the sections of the results from index i on, each written as
\* open \o path \o " ---\n" \o diff \o "\n"; a null result adds nothing
RECURSIVE SectionsFrom(_, _)
SectionsFrom(i, open) ==
  IF i > Len(tasks) THEN <<>>
  ELSE (IF tasks[i].result.kind = "section"
        THEN open \o tasks[i].result.path \o <<32, 45, 45, 45, 10>>
               \o tasks[i].result.diff \o <<10>>
        ELSE <<>>)
       \o SectionsFrom(i + 1, open)

\* every section of the results is headed by the file's relative path
SectionsUseRelativePaths ==
  \A i \in 1..Len(tasks) :
    tasks[i].result.kind = "section" => tasks[i].result.path = InputPaths[i]

\* C2 (as stated): the returned document is exactly the concatenation, in
\* input order, of "--- <relative-path> ---\n<diffText>\n" for every file
\* that produced a diff, and nothing else.
C2_Original ==
  callPc = "returned"
  => /\ allDiffs = SectionsFrom(1, <<45, 45, 45, 32>>)
     /\ SectionsUseRelativePaths

\* C2 (amended): the returned document is exactly the concatenation, in
\* input order, of "\n--- <relative-path> ---\n<diffText>\n" for every file
\* that produced a diff; a file that produced none leaves no trace.
C2_Amended ==
  callPc = "returned"
  => /\ allDiffs = SectionsFrom(1, <<10, 45, 45, 45, 32>>)
     /\ SectionsUseRelativePaths

\* a call has returned a document with a section for its second file and
\* none for its first
C2_Witness ==
  /\ callPc = "returned"
  /\ Len(filePaths) = 2
  /\ tasks[1].result.kind = "null"
  /\ tasks[2].result.kind = "section"
  /\ allDiffs # <<>>

\* no exception leaves a call once the environment checks have passed
NoExceptionPastTheChecks == callPc = "threw" => ~(gitExtension /\ repoOpen)

\* C3 (as stated): a file that does not exist, or fails with an error other
\* than "not tracked" (an error of show or of diffWithHEAD, a read error),
\* gets no section; every other file gets its section; nothing is raised.
C3_Original ==
  /\ NoExceptionPastTheChecks
  /\ callPc = "returned"
     => \A i \in 1..Len(filePaths) :
          LET w == World[filePaths[i]]
          IN (\/ ~w.exists
              \/ (w.show.kind # "none" /\ ~NotTracked(w))
              \/ (w.show.kind = "none" /\ ~w.diffOk)
              \/ (NotTracked(w) /\ ~w.readOk))
             => tasks[i].result.kind = "null"

\* C3 (amended): a file that does not exist, whose diffWithHEAD call fails,
\* or whose content cannot be read after the HEAD lookup classified it as
\* new, gets no section; every file with a retrievable, non-empty diff gets
\* its section whatever happened to the others; nothing is raised.  An error
\* of the HEAD lookup that is not classified as new is ignored: the file is
\* then diffed against HEAD like a tracked one.
C3_Amended ==
  /\ NoExceptionPastTheChecks
  /\ callPc = "returned"
     => \A i \in 1..Len(filePaths) :
          LET w == World[filePaths[i]]
          IN /\ (\/ ~w.exists
                 \/ (~ClassifiedNew(w) /\ ~w.diffOk)
                 \/ (ClassifiedNew(w) /\ ~w.readOk))
                => tasks[i].result.kind = "null"
             /\ Retrievable(w) => tasks[i].result.kind = "section"

\* a call has returned although the retrieval of its first file failed
\* (diffWithHEAD or readFile was issued and failed) before the second
\* file's retrieval completed, and the second file has its section
C3_Witness ==
  /\ callPc = "returned"
  /\ Len(filePaths) = 2
  /\ World[filePaths[1]].exists
  /\ ~Retrievable(World[filePaths[1]])
  /\ (<<"diffWithHEAD", 1>> \in adapterCalls \/ <<"readFile", 1>> \in adapterCalls)
  /\ ~World[filePaths[1]].diffOk
  /\ settleOrder = <<1, 2>>
  /\ tasks[1].result.kind = "null"
  /\ tasks[2].result.kind = "section"

\* the UTF-8 encoding of a sequence of code points
RECURSIVE Utf8Encode(_)
Utf8Encode(cps) ==
  IF cps = <<>> THEN <<>>
  ELSE LET c == Head(cps) IN
    (IF c < 128 THEN <<c>>
     ELSE IF c < 2048 THEN <<192 + (c \div 64), 128 + (c % 64)>>
     ELSE IF c < 65536
     THEN <<224 + (c \div 4096), 128 + ((c \div 64) % 64), 128 + (c % 64)>>
     ELSE <<240 + (c \div 262144), 128 + ((c \div 4096) % 64),
            128 + ((c \div 64) % 64), 128 + (c % 64)>>)
    \o Utf8Encode(Tail(cps))

\* C4 (as stated): a file that exists and that the HEAD lookup reports as
\* not tracked gets a section whose diff text is the new-file marker
\* followed by the file's exact working-copy content, and diffWithHEAD is
\* not called for it.
C4_Original ==
  callPc = "returned"
  => \A i \in 1..Len(filePaths) :
       LET w == World[filePaths[i]]
       IN (w.exists /\ NotTracked(w))
          => /\ tasks[i].result.kind = "section"
             /\ MatchesAt(tasks[i].result.diff, 1, NewFileMarker)
             /\ Utf8Encode(DropBefore(tasks[i].result.diff, Len(NewFileMarker) + 1))
                  = w.content
             /\ <<"diffWithHEAD", i>> \notin adapterCalls

\* C4 (amended): for a file that exists and that the HEAD lookup reports as
\* not tracked, diffWithHEAD is not called; when its content can be read the
\* file gets a section whose diff text is the new-file marker followed by
\* the UTF-8 decoding of the content (a leading byte order mark dropped,
\* malformed bytes replaced by U+FFFD; the content itself when it is
\* well-formed UTF-8 without a byte order mark), and when the read fails the
\* file gets no section.
C4_Amended ==
  callPc = "returned"
  => \A i \in 1..Len(filePaths) :
       LET w == World[filePaths[i]]
           text == DropBefore(tasks[i].result.diff, Len(NewFileMarker) + 1)
       IN (w.exists /\ NotTracked(w))
          => /\ <<"diffWithHEAD", i>> \notin adapterCalls
             /\ <<"readFile", i>> \in adapterCalls
             /\ IF w.readOk
                THEN /\ tasks[i].result.kind = "section"
                     /\ MatchesAt(tasks[i].result.diff, 1, NewFileMarker)
                     /\ text = TextDecode(w.content)
                     /\ (Utf8Decode(w.content, 1) = text /\ 65533 \notin
                           {text[k] : k \in 1..Len(text)})
                        => Utf8Encode(text) = w.content
                ELSE tasks[i].result.kind = "null"

\* a call has returned a section for an untracked, readable file whose
\* content is plain text, so that the section carries the content itself
C4_Witness ==
  /\ callPc = "returned"
  /\ \E i \in 1..Len(filePaths) :
       LET w == World[filePaths[i]]
       IN /\ w.exists /\ NotTracked(w) /\ w.readOk
          /\ w.content # <<>>
          /\ tasks[i].result.kind = "section"
          /\ tasks[i].result.diff = NewFileMarker \o w.content
          /\ Includes(allDiffs, NewFileMarker \o w.content)

\* C5 (as stated): a call with an empty path list returns the empty
\* document, is not an error, and issues no adapter call.
C5_Original ==
  (callPc \in {"returned", "threw"} /\ filePaths = <<>>)
  => /\ callPc = "returned"
     /\ allDiffs = <<>>
     /\ adapterCalls = {}

\* C5 (amended): a call with an empty path list issues no adapter call;
\* when the git API and a repository are there it returns the empty
\* document and notifies nobody, and otherwise it raises, as for any list.
C5_Amended ==
  (callPc \in {"returned", "threw"} /\ filePaths = <<>>)
  => /\ adapterCalls = {}
     /\ IF gitExtension /\ repoOpen
        THEN callPc = "returned" /\ allDiffs = <<>> /\ notifications = <<>>
        ELSE callPc = "threw" /\ Len(notifications) = 1

\* a call with an empty list has returned
C5_Witness ==
  /\ callPc = "returned"
  /\ filePaths = <<>>
  /\ gitExtension
  /\ repoOpen

\* C6: when the git API is missing or no repository is found, the call
\* notifies the user once, with an error, raises, returns no document, and
\* issues no adapter call for any path.
C6_EnvironmentFailureAborts ==
  (callPc # "idle" /\ (~gitExtension \/ ~repoOpen))
  => /\ callPc = "threw"
     /\ Len(notifications) = 1
     /\ notifications[1].level = "error"
     /\ notifications[1].kind = (IF ~gitExtension THEN "gitNotInitialized"
                                 ELSE "noRepository")
     /\ allDiffs = <<>>
     /\ tasks = <<>>
     /\ adapterCalls = {}

\* a call with two paths has raised because no repository was found
C6_Witness ==
  /\ callPc = "threw"
  /\ gitExtension
  /\ ~repoOpen
  /\ Len(filePaths) = 2

(***************************************************************************)
(* Properties of generateCommitMessage                                     *)
(***************************************************************************)
\* the category of a notification of the catch block
Category(kind) ==
  CASE kind = "invalidApiKey" -> "credential"
    [] kind = "networkError" -> "network"
    [] kind = "requestTimeout" -> "timeout"
    [] OTHER -> "other"

\* the first category whose key word occurs in the text of the error
TextCategory(message) ==
  IF Includes(message, TextApiKey) THEN "credential"
  ELSE IF Includes(message, TextNetwork) THEN "network"
  ELSE IF Includes(message, TextTimeout) THEN "timeout"
  ELSE "other"

\* a failed request was caught: one error notification, the default returned
CaughtWithDefault ==
  /\ genPc = "returned"
  /\ Len(notifications) = 1
  /\ notifications[1].level = "error"
  /\ genReturn = DefaultMessage

\* C7 (as stated): an error of the completion call never reaches the
\* caller; exactly one notification is shown, of the first category that
\* matches the error text among credential, network, timeout, else other,
\* and the default message is returned.
C7_Original ==
  (genPc \in {"returned", "threw"} /\ completion.kind = "rejected")
  => /\ CaughtWithDefault
     /\ Category(notifications[1].kind) = TextCategory(completion.error.message)

\* C7 (amended): an error of the completion call never reaches the caller;
\* exactly one notification is shown and the default message is returned.
\* When the rejection is an Error its category is the first that matches
\* its message among credential, network, timeout, else other; a rejection
\* that is no Error is always reported as other, whatever its text.
C7_Amended ==
  (genPc \in {"returned", "threw"} /\ completion.kind = "rejected")
  => /\ CaughtWithDefault
     /\ Category(notifications[1].kind) =
          (IF completion.error.isError
           THEN TextCategory(completion.error.message)
           ELSE "other")

\* a request failed with an Error whose message holds all three key words,
\* "API key" last, and was reported as a credential error
C7_Witness ==
  /\ genPc = "returned"
  /\ completion.kind = "rejected"
  /\ completion.error.isError
  /\ Includes(completion.error.message, TextNetwork \o <<32>> \o TextTimeout)
  /\ Includes(completion.error.message, TextApiKey)
  /\ notifications = <<[level |-> "error", kind |-> "invalidApiKey"]>>
  /\ genReturn = DefaultMessage

\* C8: without a credential (no client was created) the call notifies the
\* user of a credential error and returns the default message instead of
\* throwing.
C8_MissingCredentialReturnsDefault ==
  (genPc \in {"awaiting", "returned", "threw"} /\ ~openai)
  => /\ genPc = "returned"
     /\ genReturn = DefaultMessage
     /\ \E k \in 1..Len(notifications) :
          Category(notifications[k].kind) = "credential"

\* the settled request gave no usable text: no choice, no message, null
\* content, empty or whitespace-only text, or a failure
NoUsableText ==
  \/ completion.kind \in {"noChoices", "noMessage", "nullContent", "rejected",
                          "noChoicesArray"}
  \/ /\ completion.kind = "content"
     /\ \A k \in 1..Len(completion.content.text) :
          completion.content.text[k] \in WhiteSpace

\* C9: every value the call returns is a non-empty string, for every diff
\* and every outcome of the request; a response with no choices, with
\* missing, empty or whitespace-only text, and a failed call all give the
\* default message.
C9_NeverEmpty ==
  genPc = "returned"
  => /\ genReturn # <<>>
     /\ NoUsableText => genReturn = DefaultMessage

\* the call was given the empty diff, the response held only white space,
\* and the default message was returned
C9_Witness ==
  /\ genPc = "returned"
  /\ genDiff = <<>>
  /\ completion.kind = "content"
  /\ completion.content.text # <<>>
  /\ NoUsableText
  /\ genReturn = DefaultMessage

\* the text begins with an emoji character: a pictograph, not one of the
\* keycap bases # * 0-9 or (c), (r), which only carry the Emoji property
StartsWithPictograph(text) ==
  Len(text) > 0 /\ text[1] \in EmojiProperty \ ({35, 42, 169, 174} \cup (48..57))

\* the type token is one of the ten of the table
InTable(type) == \E p \in emojiMap : p[1] = type

\* the emoji the table assigns to the type
TableEmoji(type) == (CHOOSE p \in emojiMap : p[1] = type)[2]

\* C10: for a completion text that does not begin with an emoji, the
\* returned message is an emoji, one space, and the trimmed text unchanged:
\* the table's emoji for the type when the header matches <type>[(scope)]:
\* and the type is in the table, and the feat emoji for every other type
\* token and for a text with no recognizable header.
C10_PrefixedByTypeEmoji ==
  (/\ genPc = "returned"
   /\ completion.kind = "content"
   /\ Trim(completion.content.text) # <<>>
   /\ ~StartsWithPictograph(Trim(completion.content.text)))
  => LET text == Trim(completion.content.text)
         m == MatchType(text)
     IN genReturn =
          (IF m.matched /\ InTable(m.type) THEN TableEmoji(m.type) ELSE <<10024>>)
            \o <<32>> \o text

\* C11: a completion text that already starts with an emoji character is
\* returned as it is, with no further emoji in front, and the emoji step
\* applied to a returned message gives that message back.
C11_EmojiStepIdempotent ==
  (genPc = "returned" /\ completion.kind = "content")
  => /\ StartsWithEmoji(Trim(completion.content.text))
          => genReturn = Trim(completion.content.text)
     /\ addEmojiToCommitMessage(genReturn, TypeOf(genReturn)) = genReturn

\* C16: whenever the trimmed completion text does not begin with an emoji
\* character - whether it begins with a letter, a digit, '#', '*' or
\* punctuation - the returned message is one emoji of the table, a space,
\* and the text.
C16_NonEmojiTextGetsTableEmoji ==
  (/\ genPc = "returned"
   /\ completion.kind = "content"
   /\ Trim(completion.content.text) # <<>>
   /\ ~StartsWithPictograph(Trim(completion.content.text)))
  => \E p \in emojiMap :
       genReturn = p[2] \o <<32>> \o Trim(completion.content.text)

\* the retrieval of the file fails after the file was found: reading a new
\* file fails, or the diff against HEAD fails
RetrievalFails(w) ==
  /\ w.exists
  /\ IF w.show.kind # "none" /\ IsNewFileError(w.show) THEN ~w.readOk ELSE ~w.diffOk

\* C17: when the call has returned, every selected file that was left out
\* because its retrieval failed (a read error or an adapter error; a missing
\* file is only logged) has been reported to the user with a warning
\* notification.
C17_OmissionIsWarned ==
  callPc = "returned"
  => \A i \in 1..Len(filePaths) :
       (RetrievalFails(World[filePaths[i]]) /\ tasks[i].result.kind = "null")
       => \E k \in 1..Len(notifications) : notifications[k].level = "warning"

\* C19: one call of generateCommitMessage sends at most one request to the
\* completion service, whether the request succeeds or fails: a call that
\* has returned has sent exactly the one request for its diff, and a call
\* that threw for want of a client has sent none.
C19_AtMostOneRequest ==
  /\ Len(requestLog) <= 1
  /\ genPc \in {"awaiting", "returned"} => requestLog = <<genDiff>>
  /\ genPc \in {"idle", "threw"} => requestLog = <<>>

\* a request was rejected, the call has returned the default message, and
\* the one request is the only one it sent
C19_Witness ==
  /\ genPc = "returned"
  /\ completion.kind = "rejected"
  /\ genReturn = DefaultMessage
  /\ Len(requestLog) = 1

(***************************************************************************)
(* Properties of the review surface                                        *)
(***************************************************************************)
\* C12: every generation request that has got as far as calling the message
\* generator ends with updateContent, also when the generation fails
\* (missing or invalid credential, network failure, timeout): the surface
\* then holds a non-empty message, the one returned to the request, and the
\* composite diff of that request.
C12_EveryGenerationUpdatesSurface ==
  [][\A r \in 1..Len(requests) :
       (/\ Outstanding(requests[r])
        /\ ~Outstanding(requests'[r])
        /\ requests'[r].pc # "skipped")
       => /\ requests'[r].pc = "done"
          /\ lastCompleted'.request = r
          /\ _commitMessage' # <<>>
          /\ _commitMessage' = lastCompleted'.commitMessage
          /\ _diffContent' = requests[r].diffContent]_vars

\* C13: a 'regenerate' message calls the message generator again with the
\* composite diff the surface holds (a new generation is under way or done
\* when the handler yields), and leaves that diff in place.
C13_RegenerateCallsGenerator ==
  [][Regenerate
       => /\ Len(requests') = Len(requests) + 1
          /\ requests'[Len(requests')].pc \in {"generating", "done"}
          /\ _diffContent' = _diffContent]_vars

\* C14: an 'applyCommit' message carrying text T sets the input box of the
\* repository to exactly T and changes neither the stored message nor the
\* stored diff; when the git extension or the repository is missing, the
\* input box keeps its value and an error notification is shown.
C14_ApplySetsInputBoxOnly ==
  [][ApplyCommit
       => /\ _commitMessage' = _commitMessage
          /\ _diffContent' = _diffContent
          /\ IF gitExtension /\ repoOpen
             THEN inputBox' = textarea.value
             ELSE /\ inputBox' = inputBox
                  /\ \E k \in 1..Len(notifications') :
                       notifications'[k].level = "error"]_vars

\* the user has changed the text and applied it: the input box holds the
\* typed text, which differs from the stored message
C14_Witness ==
  /\ notifications = <<Note("info", "commitApplied")>>
  /\ textarea.present
  /\ inputBox = textarea.value
  /\ inputBox \in EditTexts
  /\ _commitMessage # inputBox
  /\ _diffContent # <<>>

\* C15: an edit of the message text by the user sets the stored message to
\* the edited text, calls no generator and leaves the stored diff, so that
\* the page shows the edited text when it is rendered again.
C15_EditIsStored ==
  [][EditedByUser
       => /\ _commitMessage' = textarea'.value
          /\ _diffContent' = _diffContent
          /\ requests' = requests]_vars

\* C18: at most one generation request (diff collection plus completion
\* call) is outstanding at any time.
C18_OneOutstandingRequest ==
  Cardinality({r \in 1..Len(requests) : Outstanding(requests[r])}) <= 1

\* C20: at every moment, under every interleaving of overlapping requests,
\* the message and the diff the surface holds are the pair one request
\* passed to updateContent, and that request is the one that completed (ran
\* to updateContent) last; before any has, both are empty.
C20_PairOfLastCompleted ==
  /\ _commitMessage = lastCompleted.commitMessage
  /\ _diffContent = lastCompleted.diffContent
  /\ lastCompleted.request = 0 => _commitMessage = <<>> /\ _diffContent = <<>>
  /\ lastCompleted.request # 0
       => /\ requests[lastCompleted.request].pc = "done"
          /\ _commitMessage # <<>>

\* two requests overlapped: the second one completed while the first was
\* outstanding, the first completed after it, and the surface shows the
\* first one's pair
C20_Witness ==
  /\ Len(requests) = 2
  /\ requests[2].pc = "done"
  /\ lastCompleted.request = 1
  /\ _commitMessage # <<>>
  /\ _diffContent # <<>>

\* the summary ChangesDiff used for the requests of the review surface is
\* what a call of getChangesDiff returns for the same files
ChangesDiffIsWhatTheCallReturns ==
  (callPc = "returned" /\ filePaths # <<>>)
  => allDiffs = ChangesDiff([i \in 1..Len(filePaths) |-> World[filePaths[i]].fsPath])

(***************************************************************************)
(* Properties of the credential                                            *)
(***************************************************************************)
\* C21: the credential is read once, at construction: no step changes the
\* client or its key, whatever happens to the setting and the environment
\* variable afterwards, and every call of generateCommitMessage uses that
\* client - it sends its request with the key read at construction, or
\* throws when no client was created then.
C21_CredentialReadAtConstruction ==
  [][/\ apiKey' = apiKey
     /\ openai' = openai
     /\ openai = (apiKey # NoKey)
     /\ GenerateCommitMessage
          => IF apiKey = NoKey
             THEN genPc' = "threw" /\ requestLog' = <<>>
             ELSE genPc' = "awaiting" /\ genKey' = apiKey]_vars

\* a call sent its request with the key read at construction although the
\* setting and the environment variable no longer hold it
C21_Witness ==
  /\ genPc = "awaiting"
  /\ genKey = apiKey
  /\ apiKey # NoKey
  /\ InitOpenAI(settingsKey, envKey) # apiKey
  /\ settingsKey # apiKey
  /\ envKey # apiKey

====
